---- MODULE Spec2Model ----
(***************************************************************************)
(* vibus-react: the binding layer between a publish/subscribe event bus    *)
(* (vibus-core) and React's component lifecycle.                           *)
(*                                                                         *)
(* The model follows src/src/hooks/index.tsx and src/src/context/index.tsx.*)
(* A "binding" is one hook call site inside one mounted component.  React  *)
(* is modelled by the order in which it calls the hook bodies and their    *)
(* effects: a render runs the hook body (bus resolution, dependency        *)
(* comparison), the effects flagged by that render run later, in one       *)
(* flush (all cleanups, then all effect bodies), and React flushes the     *)
(* effects of one render before it starts the next render or an unmount.   *)
(* The bus is modelled by its interface: on / once / onAll return an       *)
(* unsubscribe capability, emit dispatches to the registered functions in  *)
(* registration order, a once-registration is removed when it fires.       *)
(***************************************************************************)
EXTENDS Naturals, Sequences, FiniteSets

\* ------------------------------------------------------------- bounds
\* fresh buses that createEventBus() may hand out in one behaviour
MaxBus == 2
\* low-level subscribe calls one binding may make in one behaviour
MaxSubs == 2
\* handler invocations recorded per binding
MaxCalls == 2
\* functions useEmit may create for one binding
MaxFns == 2
\* unsubscribe capabilities recorded per binding
MaxCaps == 3
\* registrations application code holds on its buses at one time
MaxRegs == 2
\* times withEventLogger(bus, true) is applied to one bus
MaxWraps == 2

\* ------------------------------------------------------------- universe
Bindings == {"c1", "c2"}
BindingOrder == <<"c1", "c2">>
Kinds == {"useEvent", "useEventOnce", "useEventAll", "useEmit", "useEventBus",
          "useCurrentEventBus"}
\* the hooks that subscribe
Subscribing == {"useEvent", "useEventOnce", "useEventAll"}
Keys == {"k1", "k2"}
Handlers == {"h1", "h2"}
DepLists == {"d1", "d2"}
Payloads == {"p1", "p2"}
Configs == {"cfg1"}
\* config objects a component passes to useEventBus
HookConfigs == {"cfgA", "cfgB"}

\* the key field of a catch-all registration, and the handler field of the
\* closure useEvent creates around handlerRef
AllKey == "*"
WrappedHandler == "wrappedHandler"
NoHandler == "none"
NoDeps == "[]"
NoConfig == "none"

\* bus identities: identity matters, not value
NoBus == <<"none", 0>>
globalEventBus == <<"global", 0>>
\* buses application code creates itself: those it passes to a hook as
\* options.eventBus, and those it passes to a provider as its eventBus prop
ExplicitBuses == {<<"ext", 1>>}
ProviderBuses == {<<"ext", 2>>}
OuterBuses == {<<"ext", 3>>}
createEventBus(n) == <<"new", n>>
\* every bus identity a behaviour can hold
AllBuses ==
    {globalEventBus} \cup ExplicitBuses \cup ProviderBuses \cup OuterBuses
        \cup {createEventBus(i) : i \in 1..MaxBus}

VARIABLES
    provider,    \* EventBusProvider: [present, eventBus (prop), config (prop), value (memoized bus)]
    nextBus,     \* number of buses createEventBus() has handed out
    kind,        \* binding -> which hook the call site is
    phase,       \* binding -> "absent" | "unmounted" | "mounted" | "gone"
    props,       \* binding -> arguments of the latest render
    eventBus,    \* binding -> bus resolved by the latest render
    handlerRef,  \* binding -> handlerRef.current (useEvent)
    pending,     \* binding -> effects flagged by the latest render, not yet run
    unsub,       \* binding -> the unsubscribe capability its effect cleanup holds
    listeners,   \* the buses' registrations, in registration order
    calls,       \* binding -> handler -> invocations so far
    moved,       \* binding -> whether a render changed its (event, bus) pair
    subsForPair, \* binding -> subscribe calls made for the (event, bus) pair it is subscribed to
    fnsHanded,   \* binding -> the functions handed to the bus for that pair
    busCalls,    \* the bus calls of the latest step, in order
    delivered,   \* the handler invocations of the latest step, in order
    emitted,     \* the emission the latest step made through a useEmit function
    outer,       \* an EventBusProvider that encloses `provider`
    emitFn,      \* binding -> the function useEmit returned to the latest render
    facades,     \* the namespace facades application code holds
    wraps,       \* bus -> logging wrappers withEventLogger has put around its emit
    logged,      \* the console.log entries of the latest step, in order
    returned,    \* the return value of the withEventLogger call the latest step made
    capCalls     \* binding -> per unsubscribe capability obtained, its invocations so far

vars == <<provider, nextBus, kind, phase, props, eventBus, handlerRef, pending,
          unsub, listeners, calls, moved, subsForPair, fnsHanded, busCalls,
          delivered, emitted, outer, emitFn, wraps, facades, logged, returned,
          capCalls>>

NoEmit == [bus |-> NoBus, key |-> "", payload |-> "", via |-> ""]

\* ------------------------------------------------------------- context
\* useMemo body of EventBusProvider
ProviderBus(ext, cfg, fresh) ==
    IF ext # NoBus THEN ext
    ELSE IF cfg # NoConfig THEN fresh
    ELSE globalEventBus

\* whether the useMemo body calls createEventBus(config)
ProviderCreates(ext, cfg) == ext = NoBus /\ cfg # NoConfig

NoProvider == [present |-> FALSE, eventBus |-> NoBus, config |-> NoConfig,
               value |-> NoBus]

\* a context lookup that reads the outermost provider
useContext_Outermost ==
    IF outer.present THEN outer.value
    ELSE IF provider.present THEN provider.value
    ELSE NoBus

\* useContext(EventBusContext): the value of the nearest enclosing provider,
\* or null
useContext ==
    IF provider.present THEN provider.value
    ELSE IF outer.present THEN outer.value
    ELSE NoBus

\* an accessor that never throws
useEventBusContextThrows_Never(ctx) == FALSE

\* useEventBusContext throws when there is no enclosing provider
useEventBusContextThrows(ctx) == ctx = NoBus

\* ------------------------------------------------------------- resolution
\* a resolution that prefers the context to the explicit instance
useEventBusInstance_ContextFirst(explicit, ctx, fresh) ==
    IF ~useEventBusContextThrows(ctx) THEN ctx
    ELSE (IF explicit # NoBus THEN explicit ELSE fresh)

\* a resolution that falls back to the global bus
useEventBusInstance_GlobalFallback(explicit, ctx, fresh) ==
    IF ~useEventBusContextThrows(ctx)
    THEN (IF explicit # NoBus THEN explicit ELSE ctx)
    ELSE (IF explicit # NoBus THEN explicit ELSE globalEventBus)

\* useEventBusInstance: options?.eventBus || context.eventBus in the try
\* branch, options?.eventBus || createEventBus() in the catch branch
useEventBusInstance(explicit, ctx, fresh) ==
    IF ~useEventBusContextThrows(ctx)
    THEN (IF explicit # NoBus THEN explicit ELSE ctx)
    ELSE (IF explicit # NoBus THEN explicit ELSE fresh)

\* whether that call evaluates createEventBus()
ResolutionCreates(explicit, ctx) ==
    useEventBusContextThrows(ctx) /\ explicit = NoBus

\* ------------------------------------------------------------- hook bodies
\* the arguments a call site of each hook can pass
PropsFor(k) ==
    [event    : IF k \in {"useEvent", "useEventOnce"} THEN Keys ELSE {AllKey},
     handler  : IF k \in Subscribing THEN Handlers ELSE {NoHandler},
     deps     : IF k = "useEvent" THEN DepLists ELSE {NoDeps},
     explicit : IF k \in Subscribing \cup {"useEmit"}
                THEN ExplicitBuses \cup {NoBus} ELSE {NoBus},
     config   : IF k = "useEventBus" THEN HookConfigs \cup {NoConfig}
                ELSE {NoConfig}]

\* the arguments of a hook that has not been called
NoProps == [event |-> AllKey, handler |-> NoHandler, deps |-> NoDeps,
            explicit |-> NoBus, config |-> NoConfig]

\* a dependency list that leaves the handler out
useEventRefDeps_DepsOnly(p) == <<p.deps>>

\* useEvent, first effect: [handler, ...dependencies]
useEventRefDeps(p) == <<p.handler, p.deps>>

\* dependency lists of the subscribing effect that name the handler, leave
\* the bus out, leave the event out
useEventSubDeps_WithHandler(p, bus) == <<p.event, p.handler, bus>>
useEventSubDeps_NoBus(p, bus) == <<p.event>>
useEventSubDeps_NoEvent(p, bus) == <<bus>>

\* useEvent, second effect: [event, eventBus]
useEventSubDeps(p, bus) == <<p.event, bus>>

\* useEventOnce: [event, handler, eventBus]
useEventOnceDeps(p, bus) == <<p.event, p.handler, bus>>

\* a dependency list that leaves the bus out
useEventAllDeps_NoBus(p, bus) == <<p.handler>>

\* useEventAll: [handler, eventBus]
useEventAllDeps(p, bus) == <<p.handler, bus>>

\* a useCallback that never renews the function
useEmitDeps_Empty(bus) == <<>>

\* useEmit: useCallback dependencies [eventBus]
useEmitDeps(bus) == <<bus>>

\* the function useEmit has not returned yet
NoFn == [gen |-> 0, bus |-> NoBus, seen |-> 0]

\* useEmit: the function useCallback returns, a closure over the bus of the
\* render that created it; old is the function of the previous render; seen
\* is the number of wrappers around the emit of that bus at the creation
useEmit(old, oldbus, bus, mounting) ==
    IF mounting \/ useEmitDeps(bus) # useEmitDeps(oldbus)
    THEN [gen |-> old.gen + 1, bus |-> bus,
          seen |-> IF bus \in DOMAIN wraps THEN wraps[bus] ELSE 0]
    ELSE old

\* a useMemo that never recomputes
useEventBusDeps_Empty(p) == <<>>

\* useEventBus: useMemo dependencies [config]
useEventBusDeps(p) == <<p.config>>

\* whether useMemo runs createEventBus(config) in this render
useEventBusCreates(oldp, p, mounting) ==
    mounting \/ useEventBusDeps(p) # useEventBusDeps(oldp)

\* useEventBus: useMemo(() => createEventBus(config), [config])
useEventBus(oldp, old, p, mounting, fresh) ==
    IF useEventBusCreates(oldp, p, mounting) THEN fresh ELSE old

\* useCurrentEventBus: useEventBusContext().eventBus
useCurrentEventBus(ctx) == ctx

\* whether the hook body throws: only useCurrentEventBus lets the error of
\* useEventBusContext escape
HookThrows(k, ctx) ==
    k = "useCurrentEventBus" /\ useEventBusContextThrows(ctx)

\* whether the hook body calls createEventBus
HookCreates(k, oldp, p, ctx, mounting) ==
    CASE k = "useEventBus" -> useEventBusCreates(oldp, p, mounting)
      [] k = "useCurrentEventBus" -> FALSE
      [] OTHER -> ResolutionCreates(p.explicit, ctx)

\* the bus the hook body ends up with
HookBus(k, oldp, old, p, ctx, mounting, fresh) ==
    CASE k = "useEventBus" -> useEventBus(oldp, old, p, mounting, fresh)
      [] k = "useCurrentEventBus" -> useCurrentEventBus(ctx)
      [] OTHER -> useEventBusInstance(p.explicit, ctx, fresh)

\* the effects a hook declares; all of them run after the mounting render
MountEffects(k) ==
    CASE k = "useEvent" -> {"ref", "sub"}
      [] k = "useEventOnce" -> {"sub"}
      [] k = "useEventAll" -> {"sub"}
      [] OTHER -> {}

\* useEffect on an update: an effect is flagged when one of its dependencies
\* differs from the previous render's
UpdateEffects(k, oldp, oldbus, newp, newbus) ==
    CASE k = "useEvent" ->
            (IF useEventRefDeps(newp) # useEventRefDeps(oldp) THEN {"ref"} ELSE {})
            \cup
            (IF useEventSubDeps(newp, newbus) # useEventSubDeps(oldp, oldbus)
             THEN {"sub"} ELSE {})
      [] k = "useEventOnce" ->
            IF useEventOnceDeps(newp, newbus) # useEventOnceDeps(oldp, oldbus)
            THEN {"sub"} ELSE {}
      [] k = "useEventAll" ->
            IF useEventAllDeps(newp, newbus) # useEventAllDeps(oldp, oldbus)
            THEN {"sub"} ELSE {}
      [] OTHER -> {}

\* the function a subscribing effect hands to the bus: useEvent hands a new
\* closure over handlerRef each time the effect runs, useEventOnce and
\* useEventAll hand the caller's handler itself
SubscribedFn(b, k, p, gen) ==
    IF k = "useEvent"
    THEN [b |-> b, gen |-> gen, h |-> WrappedHandler]
    ELSE [b |-> b, gen |-> 0, h |-> p.handler]

\* hooks that all register with eventBus.onAll
SubscribeMode_All(k) == "onAll"

\* a catch-all hook that registers with eventBus.on
SubscribeMode_On(k) ==
    CASE k = "useEventOnce" -> "once"
      [] OTHER -> "on"

\* eventBus.on / eventBus.once / eventBus.onAll
SubscribeMode(k) ==
    CASE k = "useEvent" -> "on"
      [] k = "useEventOnce" -> "once"
      [] OTHER -> "onAll"

\* the (event, bus) pair binding b is subscribed to, <<>> when it holds no
\* unsubscribe capability
SubscribedPair(b) ==
    IF unsub[b] = {} THEN <<>>
    ELSE LET l == CHOOSE l \in unsub[b] : TRUE IN <<l.key, l.bus>>

\* whether the subscribing effect of b is about to subscribe to the pair b
\* is subscribed to already
SamePair(b) == SubscribedPair(b) = <<props[b].event, eventBus[b]>>

\* the closures useEvent has created for the current pair, counting the new one
Generation(b) == IF SamePair(b) THEN subsForPair[b] + 1 ELSE 1

\* the registration the subscribing effect of binding b makes
NewListener(b) ==
    [bus  |-> eventBus[b],
     key  |-> props[b].event,
     fn   |-> SubscribedFn(b, kind[b], props[b], Generation(b)),
     mode |-> SubscribeMode(kind[b])]

\* what a registered function calls: wrappedHandler forwards to
\* handlerRef.current, a handler registered directly is called itself
Target(fn) == IF fn.h = WrappedHandler THEN handlerRef[fn.b] ELSE fn.h

NoPending == \A b \in Bindings : pending[b] = {}

Quiet == /\ busCalls' = <<>>
         /\ delivered' = <<>>
         /\ emitted' = NoEmit
         /\ logged' = <<>>
         /\ returned' = NoBus

\* ------------------------------------------------------------- the bus
\* buses that exist: the global one, the callers' own, those created so far
KnownBuses ==
    {globalEventBus} \cup ExplicitBuses \cup ProviderBuses \cup {createEventBus(i) : i \in 1..nextBus}

\* the registrations an emission of key on bus reaches, in registration order
Matching(bus, key) ==
    SelectSeq(listeners, LAMBDA l : l.bus = bus /\ (l.mode = "onAll" \/ l.key = key))

\* the invocations that emission makes
Invocations(bus, key, payload) ==
    LET hit == Matching(bus, key)
    IN  [i \in 1..Len(hit) |->
            [b |-> hit[i].fn.b, h |-> Target(hit[i].fn), fn |-> hit[i].fn,
             bus |-> bus, key |-> key,
             args |-> IF hit[i].mode = "onAll" THEN <<key, payload>> ELSE <<payload>>]]

\* the registrations left after it: a once-registration that fired is removed
AfterEmit(bus, key) ==
    SelectSeq(listeners, LAMBDA l : ~(l.bus = bus /\ l.key = key /\ l.mode = "once"))

CountOf(inv, b, h) == Cardinality({i \in 1..Len(inv) : inv[i].b = b /\ inv[i].h = h})

RECURSIVE SumOver(_, _)
SumOver(f, S) ==
    IF S = {} THEN 0
    ELSE LET x == CHOOSE x \in S : TRUE IN f[x] + SumOver(f, S \ {x})

\* invocations of the handlers of binding b so far
TotalCalls(b) == SumOver(calls[b], Handlers)

\* a wrapper that logs after it has delegated
LoggedEmit_After(w, key, payload, n) ==
    [i \in 1..w |-> [key |-> key, payload |-> payload, before |-> n]]

\* the console.log entries the w wrappers withEventLogger put around bus.emit
\* make when an emission invokes n handlers: each wrapper logs the key and
\* the payload and then calls the emit it wrapped, so every entry is made
\* before the first handler is invoked
LoggedEmit(w, key, payload, n) ==
    [i \in 1..w |-> [key |-> key, payload |-> payload, before |-> 0]]

\* a closure that calls the emit the bus had when the closure was created
CalledEmit_Captured(seen, bus) == seen

\* the emit a closure created under `seen` wrappers calls when it evaluates
\* eventBus.emit(...): the property is read at the call, so it is the
\* outermost wrapper the bus has by then
CalledEmit(seen, bus) == wraps[bus]

\* a call of the emit that runs through w wrappers of bus
DispatchThrough(bus, key, payload, w) ==
    LET inv == Invocations(bus, key, payload)
    IN  /\ UNCHANGED <<provider, nextBus, kind, phase, props, eventBus, handlerRef,
                       pending, unsub, moved, subsForPair, fnsHanded, outer,
                       emitFn, wraps, facades>>
        /\ busCalls' = <<>>
        /\ returned' = NoBus
        /\ \A b \in Bindings :
               TotalCalls(b) + Cardinality({i \in 1..Len(inv) : inv[i].b = b})
                  <= MaxCalls
        /\ delivered' = inv
        /\ calls' = [b \in Bindings |-> [h \in Handlers |->
                        calls[b][h] + CountOf(inv, b, h)]]
        /\ listeners' = AfterEmit(bus, key)
        /\ logged' = LoggedEmit(w, key, payload, Len(inv))

\* eventBus.emit(key, payload) on bus
Dispatch(bus, key, payload) == DispatchThrough(bus, key, payload, wraps[bus])

\* ------------------------------------------------------------- actions
\* the hook body runs: React renders the component of binding b with
\* arguments p; flagged is the set of effects this render schedules
RenderHook(b, p, mounting) ==
    LET ctx == useContext
        creates == HookCreates(kind[b], props[b], p, ctx, mounting)
        bus == HookBus(kind[b], props[b], eventBus[b], p, ctx, mounting,
                       createEventBus(nextBus + 1))
        fn == IF kind[b] = "useEmit"
              THEN useEmit(emitFn[b], eventBus[b], bus, mounting)
              ELSE emitFn[b]
        flagged == IF mounting THEN MountEffects(kind[b])
                   ELSE UpdateEffects(kind[b], props[b], eventBus[b], p, bus)
    IN  /\ ~HookThrows(kind[b], ctx)
        /\ creates => nextBus < MaxBus
        /\ ("sub" \in flagged /\ SubscribedPair(b) = <<p.event, bus>>)
              => subsForPair[b] < MaxSubs
        /\ fn.gen <= MaxFns
        /\ emitFn' = [emitFn EXCEPT ![b] = fn]
        /\ nextBus' = IF creates THEN nextBus + 1 ELSE nextBus
        /\ props' = [props EXCEPT ![b] = p]
        /\ eventBus' = [eventBus EXCEPT ![b] = bus]
        /\ pending' = [pending EXCEPT ![b] = flagged]
        /\ moved' = [moved EXCEPT ![b] =
                        IF mounting THEN FALSE
                        ELSE @ \/ <<p.event, bus>> # <<props[b].event, eventBus[b]>>]
        /\ handlerRef' = IF mounting /\ kind[b] = "useEvent"
                         THEN [handlerRef EXCEPT ![b] = p.handler]
                         ELSE handlerRef

Mount(b, p) ==
    /\ phase[b] = "unmounted"
    /\ NoPending
    /\ RenderHook(b, p, TRUE)
    /\ phase' = [phase EXCEPT ![b] = "mounted"]
    /\ Quiet
    /\ UNCHANGED <<provider, kind, unsub, listeners, calls, subsForPair, fnsHanded,
                   outer, wraps, facades>>

\* the first render of a component that calls useCurrentEventBus outside every
\* provider: the hook throws, the component does not mount
MountThrows(b) ==
    /\ phase[b] = "unmounted"
    /\ NoPending
    /\ HookThrows(kind[b], useContext)
    /\ phase' = [phase EXCEPT ![b] = "threw"]
    /\ Quiet
    /\ UNCHANGED <<provider, nextBus, kind, props, eventBus, handlerRef, pending,
                   unsub, listeners, calls, moved, subsForPair, fnsHanded, outer,
                   emitFn, wraps, facades>>

Render(b, p) ==
    /\ phase[b] = "mounted"
    /\ NoPending
    /\ RenderHook(b, p, FALSE)
    /\ Quiet
    /\ UNCHANGED <<provider, kind, phase, unsub, listeners, calls, subsForPair,
                   fnsHanded, outer, wraps, facades>>

\* an effect that returns no cleanup
Unsubscribed_Nothing(b) == {}

\* a cleanup that clears every registration of the key on the bus
Unsubscribed_WholeKey(b) ==
    {listeners[j] : j \in {i \in DOMAIN listeners :
                              \E l \in unsub[b] : /\ listeners[i].bus = l.bus
                                                  /\ listeners[i].key = l.key}}

\* a catch-all effect that returns no cleanup
Unsubscribed_NotCatchAll(b) == IF kind[b] = "useEventAll" THEN {} ELSE unsub[b]

\* the registrations the cleanup of the subscribing effect of b removes: the
\* effect returns the unsubscribe function the bus gave it
Unsubscribed(b) == unsub[b]

\* bindings whose subscribing effect is flagged
SubPending == {b \in Bindings : "sub" \in pending[b]}

\* the registrations the flagged subscribing effects make, in tree order
RECURSIVE Created(_)
Created(order) ==
    IF order = <<>> THEN <<>>
    ELSE (IF Head(order) \in SubPending THEN <<NewListener(Head(order))>> ELSE <<>>)
         \o Created(Tail(order))

\* the unsubscribe calls the cleanups of the flagged effects make
RECURSIVE CleanupCalls(_)
CleanupCalls(order) ==
    IF order = <<>> THEN <<>>
    ELSE (IF Head(order) \in SubPending /\ Unsubscribed(Head(order)) # {}
          THEN <<[op |-> "unsubscribe", b |-> Head(order),
                  l |-> CHOOSE l \in Unsubscribed(Head(order)) : TRUE]>>
          ELSE <<>>)
         \o CleanupCalls(Tail(order))

\* the subscribe calls the bodies of the flagged effects make
CreateCalls(order) ==
    LET c == Created(order)
    IN  [i \in 1..Len(c) |-> [op |-> "subscribe", b |-> c[i].fn.b, l |-> c[i]]]

\* React flushes the effects of the latest render: the cleanups of the
\* flagged effects (the unsubscribe each returned), then their bodies
FlushEffects ==
    /\ ~NoPending
    /\ LET removed == UNION {Unsubscribed(b) : b \in SubPending}
           kept == SelectSeq(listeners, LAMBDA l : l \notin removed)
       IN  listeners' = kept \o Created(BindingOrder)
    /\ handlerRef' = [b \in Bindings |->
                        IF "ref" \in pending[b] THEN props[b].handler
                        ELSE handlerRef[b]]
    /\ unsub' = [b \in Bindings |->
                    IF b \in SubPending THEN {NewListener(b)} ELSE unsub[b]]
    /\ subsForPair' = [b \in Bindings |->
                    IF b \in SubPending THEN Generation(b) ELSE subsForPair[b]]
    /\ fnsHanded' = [b \in Bindings |->
                    IF b \in SubPending
                    THEN (IF SamePair(b) THEN fnsHanded[b] ELSE {})
                         \cup {NewListener(b).fn}
                    ELSE fnsHanded[b]]
    /\ pending' = [b \in Bindings |-> {}]
    /\ busCalls' = CleanupCalls(BindingOrder) \o CreateCalls(BindingOrder)
    /\ delivered' = <<>>
    /\ emitted' = NoEmit
    /\ logged' = <<>>
    /\ returned' = NoBus
    /\ UNCHANGED <<provider, nextBus, kind, phase, props, eventBus, calls, moved,
                   outer, emitFn, wraps, facades>>

\* the component of binding b is torn down: React runs the cleanup of every
\* effect of the hook and discards the hook's render state (the ref object
\* lives on for as long as a closure holds it)
Unmount(b) ==
    /\ phase[b] = "mounted"
    /\ NoPending
    /\ phase' = [phase EXCEPT ![b] = "gone"]
    /\ listeners' = SelectSeq(listeners, LAMBDA l : l \notin Unsubscribed(b))
    /\ busCalls' = IF Unsubscribed(b) # {}
                   THEN <<[op |-> "unsubscribe", b |-> b,
                           l |-> CHOOSE l \in Unsubscribed(b) : TRUE]>>
                   ELSE <<>>
    /\ unsub' = [unsub EXCEPT ![b] = {}]
    /\ props' = [props EXCEPT ![b] = NoProps]
    /\ eventBus' = [eventBus EXCEPT ![b] = NoBus]
    /\ emitFn' = [emitFn EXCEPT ![b] = NoFn]
    /\ delivered' = <<>>
    /\ emitted' = NoEmit
    /\ logged' = <<>>
    /\ returned' = NoBus
    /\ UNCHANGED <<provider, nextBus, kind, handlerRef, pending, calls, moved,
                   subsForPair, fnsHanded, outer, wraps, facades>>

\* application code calls bus.emit(key, payload) on a bus it holds
Emit(bus, key, payload) ==
    /\ Dispatch(bus, key, payload)
    /\ emitted' = NoEmit

\* application code calls the function useEmit returned to binding b
EmitVia(b, key, payload) ==
    /\ kind[b] = "useEmit"
    /\ phase[b] = "mounted"
    /\ DispatchThrough(emitFn[b].bus, key, payload,
                       CalledEmit(emitFn[b].seen, emitFn[b].bus))
    /\ emitted' = [bus |-> emitFn[b].bus, key |-> key, payload |-> payload,
                   via |-> b]

\* the consumers of the context are rendered again, with the arguments of
\* their latest render, in the pass that changed a provider; they read the
\* context that pass leaves
ConsumersRender ==
    LET ctx == useContext'
        bus == [b \in Bindings |->
                  HookBus(kind[b], props[b], eventBus[b], props[b], ctx, FALSE, NoBus)]
        fn == [b \in Bindings |->
                  IF phase[b] = "mounted" /\ kind[b] = "useEmit"
                  THEN useEmit(emitFn[b], eventBus[b], bus[b], FALSE)
                  ELSE emitFn[b]]
        flagged == [b \in Bindings |->
                      IF phase[b] = "mounted"
                      THEN UpdateEffects(kind[b], props[b], eventBus[b],
                                         props[b], bus[b])
                      ELSE {}]
    IN  /\ \A b \in Bindings :
             ("sub" \in flagged[b] /\ SubscribedPair(b) = <<props[b].event, bus[b]>>)
                => subsForPair[b] < MaxSubs
        /\ \A b \in Bindings : fn[b].gen <= MaxFns
        /\ eventBus' = [b \in Bindings |->
                          IF phase[b] = "mounted" THEN bus[b] ELSE eventBus[b]]
        /\ emitFn' = fn
        /\ pending' = flagged
        /\ moved' = [b \in Bindings |->
                       moved[b] \/ (phase[b] = "mounted" /\ bus[b] # eventBus[b])]

\* EventBusProvider: useMemo dependencies [externalEventBus, config, globalEventBus]
ProviderDeps(ext, cfg) == <<ext, cfg, globalEventBus>>

\* whether a render of provider pr with props ext, cfg runs the useMemo body
ProviderRecomputes(pr, ext, cfg) ==
    ProviderDeps(ext, cfg) # ProviderDeps(pr.eventBus, pr.config)

\* the bus provider pr supplies after a render with props ext, cfg
ProviderMemo(pr, ext, cfg, fresh) ==
    IF ProviderRecomputes(pr, ext, cfg) THEN ProviderBus(ext, cfg, fresh)
    ELSE pr.value

\* the provider nearest to the hooks is rendered with props ext, cfg
ProviderRender(ext, cfg) ==
    /\ provider.present
    /\ NoPending
    /\ (ProviderRecomputes(provider, ext, cfg) /\ ProviderCreates(ext, cfg))
          => nextBus < MaxBus
    /\ provider' = [provider EXCEPT
                      !.eventBus = ext, !.config = cfg,
                      !.value = ProviderMemo(provider, ext, cfg,
                                             createEventBus(nextBus + 1))]
    /\ outer' = outer
    /\ ConsumersRender
    /\ nextBus' = IF ProviderRecomputes(provider, ext, cfg) /\ ProviderCreates(ext, cfg)
                  THEN nextBus + 1 ELSE nextBus
    /\ Quiet
    /\ UNCHANGED <<kind, phase, props, handlerRef, unsub, listeners, calls,
                   subsForPair, fnsHanded, wraps, facades>>

\* the provider that encloses it is rendered with props ext, cfg
OuterRender(ext, cfg) ==
    /\ outer.present
    /\ NoPending
    /\ (ProviderRecomputes(outer, ext, cfg) /\ ProviderCreates(ext, cfg))
          => nextBus < MaxBus
    /\ outer' = [outer EXCEPT
                    !.eventBus = ext, !.config = cfg,
                    !.value = ProviderMemo(outer, ext, cfg,
                                           createEventBus(nextBus + 1))]
    /\ provider' = provider
    /\ ConsumersRender
    /\ nextBus' = IF ProviderRecomputes(outer, ext, cfg) /\ ProviderCreates(ext, cfg)
                  THEN nextBus + 1 ELSE nextBus
    /\ Quiet
    /\ UNCHANGED <<kind, phase, props, handlerRef, unsub, listeners, calls,
                   subsForPair, fnsHanded, wraps, facades>>

\* ------------------------------------------------------------- specification
\* a mounted provider with props ext, cfg; n buses were created before it
MountedProvider(ext, cfg, n) ==
    [present |-> TRUE, eventBus |-> ext, config |-> cfg,
     value |-> ProviderBus(ext, cfg, createEventBus(n + 1))]

\* the hooks of the components in `active` have not been called yet
InitHooks(active) ==
    /\ kind \in [Bindings -> Kinds]
    /\ \A b \in Bindings \ active : kind[b] = "useEmit"
    /\ phase = [b \in Bindings |-> IF b \in active THEN "unmounted" ELSE "absent"]
    /\ props = [b \in Bindings |-> NoProps]
    /\ eventBus = [b \in Bindings |-> NoBus]
    /\ handlerRef = [b \in Bindings |-> NoHandler]
    /\ pending = [b \in Bindings |-> {}]
    /\ unsub = [b \in Bindings |-> {}]
    /\ listeners = <<>>
    /\ calls = [b \in Bindings |-> [h \in Handlers |-> 0]]
    /\ moved = [b \in Bindings |-> FALSE]
    /\ subsForPair = [b \in Bindings |-> 0]
    /\ fnsHanded = [b \in Bindings |-> {}]
    /\ busCalls = <<>>
    /\ delivered = <<>>
    /\ emitted = NoEmit
    /\ emitFn = [b \in Bindings |-> NoFn]
    /\ wraps = [bus \in AllBuses |-> 0]
    /\ facades = {}
    /\ logged = <<>>
    /\ returned = NoBus
    /\ capCalls = [b \in Bindings |-> <<>>]

\* the state of a tree whose provider, if any, is mounted and whose
\* components in `active` are about to mount
InitTree(active) ==
    /\ \E present \in BOOLEAN :
       \E ext \in ProviderBuses \cup {NoBus} :
       \E cfg \in {NoConfig} \cup Configs :
          /\ ~present => (ext = NoBus /\ cfg = NoConfig)
          /\ provider = IF present THEN MountedProvider(ext, cfg, 0) ELSE NoProvider
          /\ nextBus = IF present /\ ProviderCreates(ext, cfg) THEN 1 ELSE 0
    /\ outer = NoProvider
    /\ InitHooks(active)

\* one component with one hook call, under one provider or none
Init == InitTree({"c1"})

\* the capabilities are not counted
NoTally == UNCHANGED capCalls

Next ==
    \/ \E b \in Bindings : \E p \in PropsFor(kind[b]) : Mount(b, p) /\ NoTally
    \/ \E b \in Bindings : MountThrows(b) /\ NoTally
    \/ \E b \in Bindings : \E p \in PropsFor(kind[b]) : Render(b, p) /\ NoTally
    \/ FlushEffects /\ NoTally
    \/ \E b \in Bindings : Unmount(b) /\ NoTally
    \/ \E bus \in KnownBuses : \E key \in Keys : \E payload \in Payloads :
          Emit(bus, key, payload) /\ NoTally
    \/ \E b \in Bindings : \E key \in Keys : \E payload \in Payloads :
          EmitVia(b, key, payload) /\ NoTally
    \/ \E ext \in ProviderBuses \cup {NoBus} : \E cfg \in {NoConfig} \cup Configs :
          ProviderRender(ext, cfg) /\ NoTally

Spec == Init /\ [][Next]_vars

\* a tree with two nested providers, or with the outer one only, around one
\* component with one hook call
InitNested ==
    /\ \E oext \in OuterBuses \cup {NoBus} :
       \E ocfg \in {NoConfig} \cup Configs :
       \E present \in BOOLEAN :
       \E ext \in ProviderBuses \cup {NoBus} :
       \E cfg \in {NoConfig} \cup Configs :
          LET n == IF ProviderCreates(oext, ocfg) THEN 1 ELSE 0
          IN  /\ ~present => (ext = NoBus /\ cfg = NoConfig)
              /\ outer = MountedProvider(oext, ocfg, 0)
              /\ provider = IF present THEN MountedProvider(ext, cfg, n)
                            ELSE NoProvider
              /\ nextBus = IF present /\ ProviderCreates(ext, cfg) THEN n + 1 ELSE n
    /\ InitHooks({"c1"})

NextNested ==
    \/ \E b \in Bindings : \E p \in PropsFor(kind[b]) : Mount(b, p) /\ NoTally
    \/ \E b \in Bindings : \E p \in PropsFor(kind[b]) : Render(b, p) /\ NoTally
    \/ FlushEffects /\ NoTally
    \/ \E b \in Bindings : Unmount(b) /\ NoTally
    \/ \E ext \in ProviderBuses \cup {NoBus} : \E cfg \in {NoConfig} \cup Configs :
          ProviderRender(ext, cfg) /\ NoTally
    \/ \E ext \in OuterBuses \cup {NoBus} : \E cfg \in {NoConfig} \cup Configs :
          OuterRender(ext, cfg) /\ NoTally

SpecNested == InitNested /\ [][NextNested]_vars

\* ------------------------------------------------------------- capabilities
\* the record of the capabilities of one binding after one more bus call: a
\* subscribe call hands out a new capability, an unsubscribe call invokes the
\* capability that registration came with (the latest, should the same
\* function have been registered for the same key before)
Tallied(seq, c) ==
    IF c.op = "subscribe" THEN Append(seq, [l |-> c.l, n |-> 0])
    ELSE LET same == {i \in DOMAIN seq : seq[i].l = c.l}
         IN  IF same = {} THEN seq
             ELSE LET last == CHOOSE i \in same : \A j \in same : j <= i
                  IN  [seq EXCEPT ![last].n = @ + 1]

RECURSIVE TalliedAll(_, _)
TalliedAll(seq, cs) ==
    IF cs = <<>> THEN seq
    ELSE TalliedAll(Tallied(seq, Head(cs)), Tail(cs))

\* the capabilities are counted: the bus calls of the step are recorded
Tally ==
    /\ capCalls' = [b \in Bindings |->
                      TalliedAll(capCalls[b],
                                 SelectSeq(busCalls', LAMBDA c : c.b = b))]
    /\ \A b \in Bindings : Len(capCalls'[b]) <= MaxCaps

\* one component with one subscribing hook call under a provider that
\* supplies the global bus
InitCaps ==
    /\ provider = MountedProvider(NoBus, NoConfig, 0)
    /\ outer = NoProvider
    /\ nextBus = 0
    /\ InitHooks({"c1"})
    /\ kind["c1"] \in Subscribing

\* the component passes one dependency list
CapsProps(k) == {p \in PropsFor(k) : p.deps \in {NoDeps, "d1"}}

NextCaps ==
    \/ \E b \in Bindings : \E p \in CapsProps(kind[b]) : Mount(b, p) /\ Tally
    \/ \E b \in Bindings : \E p \in CapsProps(kind[b]) : Render(b, p) /\ Tally
    \/ FlushEffects /\ Tally
    \/ \E b \in Bindings : Unmount(b) /\ Tally
    \/ \E bus \in KnownBuses : \E key \in Keys : \E payload \in Payloads :
          Emit(bus, key, payload) /\ Tally

SpecCaps == InitCaps /\ [][NextCaps]_vars

\* ------------------------------------------------------------- adapters
\* the (event, handler, eventBus) triples of withEvents and the props of
\* EventSubscription
Triples == [event : Keys, handler : Handlers, eventBus : ExplicitBuses \cup {NoBus}]

\* a wrapper that leaves the triple's bus out
withEventsArgs_NoBus(t) ==
    [event |-> t.event, handler |-> t.handler, deps |-> NoDeps,
     explicit |-> NoBus, config |-> NoConfig]

\* withEvents: useEvent(event, handler, [], { eventBus }) for one triple of
\* the subscriptions list
withEventsArgs(t) ==
    [event |-> t.event, handler |-> t.handler, deps |-> NoDeps,
     explicit |-> t.eventBus, config |-> NoConfig]

\* a node that leaves its eventBus prop out
EventSubscriptionArgs_NoBus(t) ==
    [event |-> t.event, handler |-> t.handler, deps |-> NoDeps,
     explicit |-> NoBus, config |-> NoConfig]

\* EventSubscription: useEvent(event, handler, [], { eventBus })
EventSubscriptionArgs(t) ==
    [event |-> t.event, handler |-> t.handler, deps |-> NoDeps,
     explicit |-> t.eventBus, config |-> NoConfig]

\* the place of a hook call in tree order
Pos(b) == CHOOSE i \in DOMAIN BindingOrder : BindingOrder[i] = b

\* the hook calls bs run in one render pass, in tree order, with arguments ps
RenderHooks(bs, ps, mounting) ==
    LET ctx == useContext
        creates == [b \in bs |->
                      HookCreates(kind[b], props[b], ps[b], ctx, mounting)]
        fresh == [b \in bs |->
                    createEventBus(nextBus
                       + Cardinality({c \in bs : creates[c] /\ Pos(c) <= Pos(b)}))]
        bus == [b \in bs |->
                  HookBus(kind[b], props[b], eventBus[b], ps[b], ctx, mounting,
                          fresh[b])]
        fn == [b \in bs |->
                  IF kind[b] = "useEmit"
                  THEN useEmit(emitFn[b], eventBus[b], bus[b], mounting)
                  ELSE emitFn[b]]
        flagged == [b \in bs |->
                      IF mounting THEN MountEffects(kind[b])
                      ELSE UpdateEffects(kind[b], props[b], eventBus[b], ps[b],
                                         bus[b])]
        made == Cardinality({c \in bs : creates[c]})
    IN  /\ \A b \in bs : ~HookThrows(kind[b], ctx)
        /\ nextBus + made <= MaxBus
        /\ \A b \in bs :
              ("sub" \in flagged[b] /\ SubscribedPair(b) = <<ps[b].event, bus[b]>>)
                 => subsForPair[b] < MaxSubs
        /\ \A b \in bs : fn[b].gen <= MaxFns
        /\ nextBus' = nextBus + made
        /\ props' = [b \in Bindings |-> IF b \in bs THEN ps[b] ELSE props[b]]
        /\ eventBus' = [b \in Bindings |-> IF b \in bs THEN bus[b] ELSE eventBus[b]]
        /\ emitFn' = [b \in Bindings |-> IF b \in bs THEN fn[b] ELSE emitFn[b]]
        /\ pending' = [b \in Bindings |-> IF b \in bs THEN flagged[b] ELSE pending[b]]
        /\ moved' = [b \in Bindings |->
                        IF b \notin bs THEN moved[b]
                        ELSE IF mounting THEN FALSE
                        ELSE moved[b]
                             \/ <<ps[b].event, bus[b]>> # <<props[b].event, eventBus[b]>>]
        /\ handlerRef' = [b \in Bindings |->
                             IF b \in bs /\ mounting /\ kind[b] = "useEvent"
                             THEN ps[b].handler ELSE handlerRef[b]]

\* the components that hold the hook calls bs mount in one pass
MountAll(bs, ps) ==
    /\ \A b \in bs : phase[b] = "unmounted"
    /\ NoPending
    /\ RenderHooks(bs, ps, TRUE)
    /\ phase' = [b \in Bindings |-> IF b \in bs THEN "mounted" ELSE phase[b]]
    /\ Quiet
    /\ UNCHANGED <<provider, kind, unsub, listeners, calls, subsForPair, fnsHanded,
                   outer, wraps, facades>>

\* they are rendered again in one pass, with the arguments they had
RenderAll(bs) ==
    /\ \A b \in bs : phase[b] = "mounted"
    /\ NoPending
    /\ RenderHooks(bs, props, FALSE)
    /\ Quiet
    /\ UNCHANGED <<provider, kind, phase, unsub, listeners, calls, subsForPair,
                   fnsHanded, outer, wraps, facades>>

\* the unsubscribe calls the cleanups of the hook calls bs make at unmount
RECURSIVE UnmountCalls(_, _)
UnmountCalls(bs, order) ==
    IF order = <<>> THEN <<>>
    ELSE (IF Head(order) \in bs /\ Unsubscribed(Head(order)) # {}
          THEN <<[op |-> "unsubscribe", b |-> Head(order),
                  l |-> CHOOSE l \in Unsubscribed(Head(order)) : TRUE]>>
          ELSE <<>>)
         \o UnmountCalls(bs, Tail(order))

\* they are torn down in one pass
UnmountAll(bs) ==
    /\ \A b \in bs : phase[b] = "mounted"
    /\ NoPending
    /\ phase' = [b \in Bindings |-> IF b \in bs THEN "gone" ELSE phase[b]]
    /\ LET removed == UNION {Unsubscribed(b) : b \in bs}
       IN  listeners' = SelectSeq(listeners, LAMBDA l : l \notin removed)
    /\ busCalls' = UnmountCalls(bs, BindingOrder)
    /\ unsub' = [b \in Bindings |-> IF b \in bs THEN {} ELSE unsub[b]]
    /\ props' = [b \in Bindings |-> IF b \in bs THEN NoProps ELSE props[b]]
    /\ eventBus' = [b \in Bindings |-> IF b \in bs THEN NoBus ELSE eventBus[b]]
    /\ emitFn' = [b \in Bindings |-> IF b \in bs THEN NoFn ELSE emitFn[b]]
    /\ delivered' = <<>>
    /\ emitted' = NoEmit
    /\ logged' = <<>>
    /\ returned' = NoBus
    /\ UNCHANGED <<provider, nextBus, kind, handlerRef, pending, calls, moved,
                   subsForPair, fnsHanded, outer, wraps, facades>>

\* two useEvent call sites about to mount, under one provider or none
InitAdapters ==
    /\ InitTree(Bindings)
    /\ kind = [b \in Bindings |-> "useEvent"]

\* a component made by withEvents with a list of two triples: c1 and c2 are
\* the useEvent calls of its forEach; the triples have a handler each
HocLists ==
    {ts \in [Bindings -> Triples] :
        ts["c1"].handler = "h1" /\ ts["c2"].handler = "h2"}

NextHoc ==
    \/ \E ts \in HocLists :
          MountAll(Bindings, [b \in Bindings |-> withEventsArgs(ts[b])]) /\ NoTally
    \/ RenderAll(Bindings) /\ NoTally
    \/ FlushEffects /\ NoTally
    \/ UnmountAll(Bindings) /\ NoTally
    \/ \E bus \in KnownBuses : \E key \in Keys : \E payload \in Payloads :
          Emit(bus, key, payload) /\ NoTally
    \/ \E ext \in ProviderBuses \cup {NoBus} : \E cfg \in {NoConfig} \cup Configs :
          ProviderRender(ext, cfg) /\ NoTally

SpecHoc == InitAdapters /\ [][NextHoc]_vars

\* a component made by withEvents with the one triple t (c1) and an
\* EventSubscription node with props t (c2), mounted, rendered again and
\* unmounted together
NextParity ==
    \/ \E t \in Triples :
          MountAll(Bindings, [b \in Bindings |->
                                IF b = "c1" THEN withEventsArgs(t)
                                ELSE EventSubscriptionArgs(t)]) /\ NoTally
    \/ RenderAll(Bindings) /\ NoTally
    \/ FlushEffects /\ NoTally
    \/ UnmountAll(Bindings) /\ NoTally
    \/ \E bus \in KnownBuses : \E key \in Keys : \E payload \in Payloads :
          Emit(bus, key, payload) /\ NoTally
    \/ \E ext \in ProviderBuses \cup {NoBus} : \E cfg \in {NoConfig} \cup Configs :
          ProviderRender(ext, cfg) /\ NoTally

SpecParity == InitAdapters /\ [][NextParity]_vars

\* an emitting component and a listening one, under one provider or none
InitEmitter ==
    /\ InitTree({"c1", "c2"})
    /\ kind = [b \in Bindings |-> IF b = "c1" THEN "useEmit" ELSE "useEvent"]

\* the listening component always passes the same handler and dependencies
EmitterProps(b) ==
    IF kind[b] = "useEmit" THEN PropsFor(kind[b])
    ELSE {p \in PropsFor(kind[b]) : p.handler = "h1" /\ p.deps = "d1"}

NextEmitter ==
    \/ \E b \in Bindings : \E p \in EmitterProps(b) : Mount(b, p) /\ NoTally
    \/ \E b \in Bindings : \E p \in EmitterProps(b) : Render(b, p) /\ NoTally
    \/ FlushEffects /\ NoTally
    \/ \E b \in Bindings : Unmount(b) /\ NoTally
    \/ \E b \in Bindings : \E key \in Keys : \E payload \in Payloads :
          EmitVia(b, key, payload) /\ NoTally
    \/ \E ext \in ProviderBuses \cup {NoBus} : \E cfg \in {NoConfig} \cup Configs :
          ProviderRender(ext, cfg) /\ NoTally

SpecEmitter == InitEmitter /\ [][NextEmitter]_vars

\* ------------------------------------------------------------- utilities
\* prefixes application code creates facades for, and the buses it hands to
\* createEventNamespace and withEventLogger
Namespaces == {"user", "app"}
UtilBuses == ExplicitBuses \cup {globalEventBus}
\* the buses it creates facades on
FacadeBuses == ExplicitBuses

\* a facade that passes the event name through
NamespacedKey_Bare(namespace, event) == event

\* `${namespace}:${event}`
NamespacedKey(namespace, event) == namespace \o ":" \o event

\* the keys application code emits on a bus directly
UtilKeys == Keys \cup {NamespacedKey(ns, e) : ns \in Namespaces, e \in Keys}

\* a handler application code registers itself
AppFn(h) == [b |-> "app", gen |-> 0, h |-> h]

Registration(bus, key, h, mode) ==
    [bus |-> bus, key |-> key, fn |-> AppFn(h), mode |-> mode]

Registered(bus, key, h) ==
    \E i \in DOMAIN listeners :
        /\ listeners[i].bus = bus /\ listeners[i].key = key
        /\ listeners[i].fn = AppFn(h)

\* eventBus.on(key, handler) / eventBus.once(key, handler)
BusSubscribe(bus, key, h, mode) ==
    /\ Len(listeners) < MaxRegs
    /\ ~Registered(bus, key, h)
    /\ listeners' = Append(listeners, Registration(bus, key, h, mode))
    /\ busCalls' = <<>>
    /\ delivered' = <<>>
    /\ emitted' = NoEmit
    /\ logged' = <<>>
    /\ returned' = NoBus
    /\ UNCHANGED <<provider, nextBus, kind, phase, props, eventBus, handlerRef,
                   pending, unsub, calls, moved, subsForPair, fnsHanded, outer,
                   emitFn, wraps, facades>>

\* eventBus.off(key, handler) for a registered handler: the persistent
\* registration of handler for key is removed; whether a pending one-shot
\* registration of it goes too is the bus's business (once)
BusOff(bus, key, h, once) ==
    /\ Registered(bus, key, h)
    /\ listeners' = SelectSeq(listeners, LAMBDA l :
                        ~(/\ l.bus = bus /\ l.key = key /\ l.fn = AppFn(h)
                          /\ (l.mode = "on" \/ once)))
    /\ busCalls' = <<>>
    /\ delivered' = <<>>
    /\ emitted' = NoEmit
    /\ logged' = <<>>
    /\ returned' = NoBus
    /\ UNCHANGED <<provider, nextBus, kind, phase, props, eventBus, handlerRef,
                   pending, unsub, calls, moved, subsForPair, fnsHanded, outer,
                   emitFn, wraps, facades>>

\* createEventNamespace(namespace, bus).on(event, handler)
FacadeOn(namespace, bus, event, h) ==
    BusSubscribe(bus, NamespacedKey(namespace, event), h, "on")

\* createEventNamespace(namespace, bus).once(event, handler)
FacadeOnce(namespace, bus, event, h) ==
    BusSubscribe(bus, NamespacedKey(namespace, event), h, "once")

\* createEventNamespace(namespace, bus).off(event, handler)
FacadeOff(namespace, bus, event, h) ==
    \E once \in BOOLEAN : BusOff(bus, NamespacedKey(namespace, event), h, once)

\* createEventNamespace(namespace, bus).emit(event, payload)
FacadeEmit(namespace, bus, event, payload) ==
    /\ emitted' = [bus |-> bus, key |-> event, payload |-> payload,
                   via |-> namespace]
    /\ Dispatch(bus, NamespacedKey(namespace, event), payload)

\* withEventLogger(bus, enabled): the wrappers around bus.emit afterwards
withEventLogger(w, enabled) == IF enabled THEN w + 1 ELSE w

\* application code calls withEventLogger(bus, enabled); the call returns bus
WithEventLogger(bus, enabled) ==
    /\ enabled => wraps[bus] < MaxWraps
    /\ wraps' = [wraps EXCEPT ![bus] = withEventLogger(@, enabled)]
    /\ returned' = bus
    /\ busCalls' = <<>>
    /\ delivered' = <<>>
    /\ emitted' = NoEmit
    /\ logged' = <<>>
    /\ UNCHANGED <<provider, nextBus, kind, phase, props, eventBus, handlerRef,
                   pending, unsub, listeners, calls, moved, subsForPair, fnsHanded,
                   outer, emitFn, facades>>

\* no provider and no component: application code with its buses
InitUtils ==
    /\ provider = NoProvider
    /\ outer = NoProvider
    /\ nextBus = 0
    /\ InitHooks({})

\* application code with facades for two prefixes on its buses
NextNamespace ==
    \/ \E ns \in Namespaces : \E bus \in FacadeBuses : \E e \in Keys :
       \E h \in Handlers : FacadeOn(ns, bus, e, h) /\ NoTally
    \/ \E ns \in Namespaces : \E bus \in FacadeBuses : \E e \in Keys :
       \E h \in Handlers : FacadeOnce(ns, bus, e, h) /\ NoTally
    \/ \E ns \in Namespaces : \E bus \in FacadeBuses : \E e \in Keys :
       \E h \in Handlers : FacadeOff(ns, bus, e, h) /\ NoTally
    \/ \E ns \in Namespaces : \E bus \in FacadeBuses : \E e \in Keys :
       \E payload \in Payloads : FacadeEmit(ns, bus, e, payload) /\ NoTally
    \/ \E bus \in UtilBuses : \E key \in UtilKeys : \E payload \in Payloads :
          Emit(bus, key, payload) /\ NoTally

SpecNamespace == InitUtils /\ [][NextNamespace]_vars

\* application code that registers handlers on its buses, wraps the buses
\* with withEventLogger and emits
NextLogger ==
    \/ \E bus \in UtilBuses : \E key \in Keys : \E h \in Handlers :
       \E mode \in {"on", "once"} : BusSubscribe(bus, key, h, mode) /\ NoTally
    \/ \E bus \in UtilBuses : \E key \in Keys : \E payload \in Payloads :
          Emit(bus, key, payload) /\ NoTally
    \/ \E bus \in UtilBuses : \E enabled \in BOOLEAN :
          WithEventLogger(bus, enabled) /\ NoTally

SpecLogger == InitUtils /\ [][NextLogger]_vars

\* ------------------------------------------------------------- held emitters
\* createEventNamespace(namespace, bus): application code keeps the facade;
\* seen is the number of wrappers around the emit of bus at the creation
CreateEventNamespace(namespace, bus) ==
    /\ \A f \in facades : ~(f.ns = namespace /\ f.bus = bus)
    /\ facades' = facades \cup {[ns |-> namespace, bus |-> bus, seen |-> wraps[bus]]}
    /\ Quiet
    /\ UNCHANGED <<provider, nextBus, kind, phase, props, eventBus, handlerRef,
                   pending, unsub, listeners, calls, moved, subsForPair, fnsHanded,
                   outer, emitFn, wraps>>

\* application code calls emit(event, payload) of a facade f it holds
HeldFacadeEmit(f, event, payload) ==
    /\ emitted' = [bus |-> f.bus, key |-> event, payload |-> payload, via |-> f.ns]
    /\ DispatchThrough(f.bus, NamespacedKey(f.ns, event), payload,
                       CalledEmit(f.seen, f.bus))

\* the keys application code listens to: a plain one and that of a facade
HeldKeys == {"k1", NamespacedKey("user", "k1")}

\* a component that calls useEmit under a provider that supplies the global
\* bus, and application code that has no facade yet
InitHeld ==
    /\ provider = MountedProvider(NoBus, NoConfig, 0)
    /\ outer = NoProvider
    /\ nextBus = 0
    /\ InitHooks({"c1"})
    /\ kind["c1"] = "useEmit"

\* the component, and application code that creates a facade, registers
\* handlers, wraps the buses with withEventLogger and emits through the
\* function of useEmit and through the facade
NextHeld ==
    \/ \E b \in Bindings : \E p \in PropsFor(kind[b]) : Mount(b, p) /\ NoTally
    \/ \E b \in Bindings : \E p \in PropsFor(kind[b]) : Render(b, p) /\ NoTally
    \/ \E b \in Bindings : Unmount(b) /\ NoTally
    \/ \E bus \in UtilBuses : CreateEventNamespace("user", bus) /\ NoTally
    \/ \E bus \in UtilBuses : \E key \in HeldKeys :
          BusSubscribe(bus, key, "h1", "on") /\ NoTally
    \/ \E bus \in UtilBuses : \E enabled \in BOOLEAN :
          WithEventLogger(bus, enabled) /\ NoTally
    \/ \E b \in Bindings : \E payload \in Payloads :
          EmitVia(b, "k1", payload) /\ NoTally
    \/ \E f \in facades : \E payload \in Payloads :
          HeldFacadeEmit(f, "k1", payload) /\ NoTally

SpecHeld == InitHeld /\ [][NextHeld]_vars

\* ------------------------------------------------------------- shared bus
\* two components with a useEvent call each and application code with a
\* handler of its own, all under a provider that supplies the global bus
InitShared ==
    /\ provider = MountedProvider(NoBus, NoConfig, 0)
    /\ outer = NoProvider
    /\ nextBus = 0
    /\ InitHooks(Bindings)
    /\ kind = [b \in Bindings |-> "useEvent"]

\* each component passes a handler of its own and one dependency list; the
\* second one always resolves the provider's bus
SharedProps(b) ==
    {p \in PropsFor(kind[b]) :
        /\ p.handler = (IF b = "c1" THEN "h1" ELSE "h2")
        /\ p.deps = "d1"
        /\ b = "c2" => p.explicit = NoBus}

NextShared ==
    \/ \E b \in Bindings : \E p \in SharedProps(b) : Mount(b, p) /\ NoTally
    \/ \E b \in Bindings : \E p \in SharedProps(b) : Render(b, p) /\ NoTally
    \/ FlushEffects /\ NoTally
    \/ \E b \in Bindings : Unmount(b) /\ NoTally
    \/ \E bus \in UtilBuses : \E key \in Keys :
          BusSubscribe(bus, key, "h1", "on") /\ NoTally
    \/ \E bus \in UtilBuses : \E key \in Keys :
          Emit(bus, key, "p1") /\ NoTally

SpecShared == InitShared /\ [][NextShared]_vars

\* ------------------------------------------------------------- properties
\* the live registrations binding b made
Mine(b) == {i \in DOMAIN listeners : listeners[i].fn.b = b}

Live(l) == \E i \in DOMAIN listeners : listeners[i] = l

\* C1: a useEvent binding whose (event, bus) pair never changed has made
\* exactly one subscribe call, whatever handler and dependency-list changes
\* its re-renders brought, and that first registration is still the live one
\* (no unsubscribe call was made either).
C1_OneSubscribeCall ==
    \A b \in Bindings :
        (kind[b] = "useEvent" /\ phase[b] = "mounted" /\ ~moved[b]
            /\ "sub" \notin pending[b])
        => /\ subsForPair[b] = 1
           /\ Cardinality(Mine(b)) = 1
           /\ \A l \in unsub[b] : l.fn.gen = 1 /\ Live(l)

\* both handlers have been invoked through the one registration
C1_Witness ==
    \E b \in Bindings :
        /\ kind[b] = "useEvent" /\ phase[b] = "mounted" /\ ~moved[b]
        /\ pending[b] = {}
        /\ subsForPair[b] = 1
        /\ calls[b]["h1"] >= 1 /\ calls[b]["h2"] >= 1

\* C2: a useEvent binding whose effects are committed holds exactly one live
\* registration, on the (event, bus) pair of its latest render; it holds none
\* before it is mounted and none after it is unmounted.
C2_ExactlyOneLiveSubscription ==
    \A b \in Bindings :
        kind[b] = "useEvent" =>
           /\ (phase[b] = "mounted" /\ pending[b] = {}) =>
                 /\ Cardinality(Mine(b)) = 1
                 /\ \A i \in Mine(b) :
                       /\ listeners[i].bus = eventBus[b]
                       /\ listeners[i].key = props[b].event
                       /\ listeners[i].mode = "on"
           /\ phase[b] \in {"unmounted", "gone"} => Mine(b) = {}

\* committed again after a pair change (an unsubscribe and a subscribe in the
\* latest step), having been invoked before
C2_Witness ==
    \E b \in Bindings :
        /\ kind[b] = "useEvent" /\ phase[b] = "mounted" /\ pending[b] = {}
        /\ moved[b]
        /\ Len(busCalls) = 2
        /\ TotalCalls(b) >= 1

\* C3: once a useEvent binding is unmounted, no emission invokes a handler
\* through it and no step changes the invocation count of any handler it held.
C3_NoneDelivered ==
    \A i \in DOMAIN delivered :
        kind[delivered[i].b] = "useEvent" => phase[delivered[i].b] # "gone"

C3_NoInvocationAfterUnmount ==
    /\ []C3_NoneDelivered
    /\ [][\A b \in Bindings :
             (kind[b] = "useEvent" /\ phase[b] = "gone") => calls'[b] = calls[b]]_vars

\* unmounted after exactly one invocation
C3_Witness ==
    \E b \in Bindings :
        kind[b] = "useEvent" /\ phase[b] = "gone" /\ TotalCalls(b) = 1

\* C4: an emission that reaches a useEvent binding whose handler-refreshing
\* effect is not pending invokes the handler of the latest render; an earlier
\* handler is reached only while that effect is pending.
C4_NewestHandlerInvoked ==
    \A i \in DOMAIN delivered :
        LET d == delivered[i]
        IN  (kind[d.b] = "useEvent" /\ "ref" \notin pending[d.b])
            => d.h = props[d.b].handler

\* h2 is invoked through the registration that invoked h1 before
C4_Witness ==
    \E b \in Bindings :
        /\ kind[b] = "useEvent" /\ phase[b] = "mounted" /\ pending[b] = {}
        /\ ~moved[b]
        /\ calls[b]["h1"] >= 1
        /\ delivered # <<>> /\ delivered[1].b = b /\ delivered[1].h = "h2"

\* C5 (as claimed): with no provider, resolution creates at most one bus per
\* hook call site that has been rendered.
C5_ImplicitBusCreatedOnce ==
    ~provider.present
    => nextBus <= Cardinality({b \in Bindings : phase[b] \in {"mounted", "gone"}})

\* C6: a binding given an explicit bus E under a provider that supplies a
\* different bus resolves to E; its registrations are on E, the emissions that
\* reach it were made on E, and the function useEmit returned emits on E.
C6_ExplicitOverridesAmbient ==
    \A b \in Bindings :
        (phase[b] = "mounted" /\ provider.present /\ props[b].explicit # NoBus
            /\ provider.value # props[b].explicit)
        => /\ eventBus[b] = props[b].explicit
           /\ "sub" \notin pending[b] =>
                 /\ \A i \in Mine(b) : listeners[i].bus = props[b].explicit
                 /\ \A i \in DOMAIN delivered :
                       delivered[i].b = b => delivered[i].bus = props[b].explicit
           /\ emitted.via = b => emitted.bus = props[b].explicit

\* an emission on E reached the binding while the provider supplied another bus
C6_Witness ==
    \E b \in Bindings :
        /\ phase[b] = "mounted" /\ provider.present
        /\ props[b].explicit # NoBus /\ provider.value # props[b].explicit
        /\ pending[b] = {}
        /\ delivered # <<>> /\ delivered[1].b = b
        /\ delivered[1].bus = props[b].explicit

\* C7 (as claimed): a useEventOnce binding whose (event, bus) pair never
\* changed has had its handler invoked at most once in total.
C7_OnceInvokedOnce ==
    \A b \in Bindings :
        (kind[b] = "useEventOnce" /\ ~moved[b]) => TotalCalls(b) <= 1

\* C8 (as claimed): a binding of any of the three subscribing hooks whose
\* (event, bus) pair never changed has handed the bus one function identity.
C8_OneFunctionIdentity ==
    \A b \in Bindings :
        (kind[b] \in Subscribing /\ ~moved[b]) => Cardinality(fnsHanded[b]) <= 1

\* C9: when the flush that follows a change of the (event, bus) pair of a
\* subscribed useEvent binding runs, the binding calls the unsubscribe of the
\* old pair and then subscribes to the new pair, in that order and in that one
\* step; afterwards its only registration is the new one, and an emission
\* reaches it only when made on the pair of its latest render.
C9_StepOf(b) ==
    (kind[b] = "useEvent" /\ phase[b] = "mounted" /\ "sub" \in pending[b]
        /\ unsub[b] # {} /\ pending'[b] = {})
    => /\ Cardinality(unsub'[b]) = 1
       /\ LET old == CHOOSE l \in unsub[b] : TRUE
              new == CHOOSE l \in unsub'[b] : TRUE
          IN  /\ <<new.key, new.bus>> = <<props[b].event, eventBus[b]>>
              /\ <<old.key, old.bus>> # <<new.key, new.bus>>
              /\ \E i, j \in DOMAIN busCalls' :
                    /\ i < j
                    /\ busCalls'[i] = [op |-> "unsubscribe", b |-> b, l |-> old]
                    /\ busCalls'[j] = [op |-> "subscribe", b |-> b, l |-> new]
                    /\ \A k \in DOMAIN busCalls' :
                          busCalls'[k].b = b => k \in {i, j}
              /\ \A k \in DOMAIN listeners' :
                    listeners'[k].fn.b = b => listeners'[k] = new
              /\ \E k \in DOMAIN listeners' : listeners'[k] = new

C9_Delivery ==
    \A i \in DOMAIN delivered :
        LET d == delivered[i]
        IN  (kind[d.b] = "useEvent" /\ "sub" \notin pending[d.b])
            => <<d.key, d.bus>> = <<props[d.b].event, eventBus[d.b]>>

C9_UnsubscribeThenSubscribe ==
    /\ []C9_Delivery
    /\ [][\A b \in Bindings : C9_StepOf(b)]_vars

\* the latest step unsubscribed from one pair and subscribed to another, with
\* both the event and the bus changed
C9_Witness ==
    \E b \in Bindings :
        /\ kind[b] = "useEvent" /\ phase[b] = "mounted"
        /\ Len(busCalls) = 2
        /\ busCalls[1].op = "unsubscribe" /\ busCalls[2].op = "subscribe"
        /\ busCalls[1].b = b /\ busCalls[2].b = b
        /\ busCalls[1].l.key # busCalls[2].l.key
        /\ busCalls[1].l.bus # busCalls[2].l.bus

\* C10: when the provider's bus changes, the render it triggers schedules the
\* subscribing effect of every mounted binding without an explicit bus and
\* leaves every binding with an explicit bus as it was; the flush of that
\* render calls the unsubscribe of the registration on the old bus and then
\* subscribes on the provider's bus; once the effects are committed no such
\* binding has a registration on another bus than the provider's.
C10_Committed ==
    \A b \in Bindings :
        (provider.present /\ phase[b] = "mounted" /\ kind[b] \in Subscribing
            /\ props[b].explicit = NoBus /\ pending[b] = {})
        => /\ \A i \in Mine(b) : listeners[i].bus = provider.value
           /\ Cardinality(unsub[b]) = 1
           /\ \A l \in unsub[b] : l.bus = provider.value

C10_ProviderStep ==
    (provider.present /\ provider'.value # provider.value)
    => /\ listeners' = listeners
       /\ \A b \in Bindings :
             (phase[b] = "mounted" /\ kind[b] \in Subscribing) =>
                IF props[b].explicit = NoBus
                THEN /\ "sub" \in pending'[b]
                     /\ eventBus'[b] = provider'.value
                     /\ unsub'[b] = unsub[b]
                ELSE /\ pending'[b] = {}
                     /\ eventBus'[b] = eventBus[b]
                     /\ unsub'[b] = unsub[b]

C10_FlushStep ==
    \A b \in Bindings :
        (provider.present /\ phase[b] = "mounted" /\ kind[b] \in Subscribing
            /\ props[b].explicit = NoBus /\ "sub" \in pending[b] /\ unsub[b] # {}
            /\ (\E l \in unsub[b] : l.bus # provider.value)
            /\ pending'[b] = {})
        => /\ Cardinality(unsub'[b]) = 1
           /\ LET old == CHOOSE l \in unsub[b] : TRUE
                  new == CHOOSE l \in unsub'[b] : TRUE
              IN  /\ new.bus = provider.value
                  /\ ~(\E k \in DOMAIN listeners' : listeners'[k] = old)
                  /\ \E k \in DOMAIN listeners' : listeners'[k] = new
                  /\ \E i, j \in DOMAIN busCalls' :
                        /\ i < j
                        /\ busCalls'[i] = [op |-> "unsubscribe", b |-> b, l |-> old]
                        /\ busCalls'[j] = [op |-> "subscribe", b |-> b, l |-> new]

C10_ProviderChangeResubscribes ==
    /\ []C10_Committed
    /\ [][C10_ProviderStep /\ C10_FlushStep]_vars

\* the latest step moved a binding without an explicit bus from the bus the
\* provider supplied before to the one it supplies now
C10_Witness ==
    \E b \in Bindings :
        /\ provider.present /\ phase[b] = "mounted" /\ props[b].explicit = NoBus
        /\ Len(busCalls) = 2
        /\ busCalls[1].op = "unsubscribe" /\ busCalls[2].op = "subscribe"
        /\ busCalls[1].b = b /\ busCalls[2].b = b
        /\ busCalls[1].l.bus # busCalls[2].l.bus
        /\ busCalls[1].l.bus \notin ExplicitBuses
        /\ busCalls[2].l.bus = provider.value
        /\ busCalls[1].l.key = busCalls[2].l.key

NoProviderAbove == ~provider.present /\ ~outer.present

\* C11: with no enclosing provider, a component that calls useCurrentEventBus
\* never mounts and never holds a bus: its first render throws, and that step
\* creates no bus and changes nothing else; useEvent, useEventOnce,
\* useEventAll and useEmit never throw there and every mounted one holds a bus.
C11_State ==
    \A b \in Bindings :
        NoProviderAbove =>
           IF kind[b] = "useCurrentEventBus"
           THEN /\ phase[b] \in {"absent", "unmounted", "threw"}
                /\ eventBus[b] = NoBus
                /\ (\A c \in Bindings \ {b} : phase[c] = "absent") => nextBus = 0
           ELSE /\ phase[b] # "threw"
                /\ (phase[b] = "mounted" /\ kind[b] \in Subscribing \cup {"useEmit"})
                      => eventBus[b] \in KnownBuses

C11_Step ==
    \A b \in Bindings :
        (NoProviderAbove /\ kind[b] = "useCurrentEventBus" /\ phase'[b] # phase[b])
        => /\ phase'[b] = "threw"
           /\ UNCHANGED <<nextBus, eventBus, listeners, props>>

C11_AccessorThrowsResolutionDoesNot ==
    /\ []C11_State
    /\ [][C11_Step]_vars

\* the accessor has thrown outside every provider
C11_Witness ==
    \E b \in Bindings :
        /\ NoProviderAbove
        /\ kind[b] = "useCurrentEventBus"
        /\ phase[b] = "threw"

\* the invocations of the latest step made through binding b
DeliveredTo(b) == {i \in DOMAIN delivered : delivered[i].b = b}

\* C12: every emission of any key K with payload P on the bus a mounted
\* useEventAll binding is registered on invokes the registered handler exactly
\* once, with K and P (the handler of the latest render once its effect is
\* committed); an emission on another bus does not invoke it; after the
\* unmount no emission invokes it.
C12_EmitStep ==
    \A b \in Bindings :
        (kind[b] = "useEventAll" /\ phase[b] = "mounted" /\ unsub[b] # {})
        => \A bus \in KnownBuses : \A key \in Keys : \A payload \in Payloads :
              Dispatch(bus, key, payload) =>
                  LET l == CHOOSE l \in unsub[b] : TRUE
                      got == {i \in DOMAIN delivered' : delivered'[i].b = b}
                  IN  IF l.bus = bus
                      THEN /\ Cardinality(got) = 1
                           /\ \A i \in got :
                                 /\ delivered'[i].args = <<key, payload>>
                                 /\ delivered'[i].h = l.fn.h
                                 /\ pending[b] = {} =>
                                       /\ delivered'[i].h = props[b].handler
                                       /\ bus = eventBus[b]
                           /\ calls'[b][l.fn.h] = calls[b][l.fn.h] + 1
                      ELSE /\ got = {}
                           /\ calls'[b] = calls[b]

C12_NoneAfterUnmount ==
    \A b \in Bindings :
        (kind[b] = "useEventAll" /\ phase[b] = "gone") => DeliveredTo(b) = {}

C12_CatchAllInvokedWithKeyAndPayload ==
    /\ []C12_NoneAfterUnmount
    /\ [][C12_EmitStep]_vars
    /\ [][\A b \in Bindings :
             (kind[b] = "useEventAll" /\ phase[b] = "gone") => calls'[b] = calls[b]]_vars

\* the catch-all handler has been invoked twice, the second time with k2, p2
C12_Witness ==
    \E b \in Bindings :
        /\ kind[b] = "useEventAll" /\ phase[b] = "mounted" /\ pending[b] = {}
        /\ TotalCalls(b) = 2
        /\ Cardinality(DeliveredTo(b)) = 1
        /\ \A i \in DeliveredTo(b) :
              delivered[i].args = <<"k2", "p2">> /\ delivered[i].h = props[b].handler

\* the hooks that read the context
ContextReaders == Subscribing \cup {"useEmit", "useCurrentEventBus"}

\* C13: a mounted binding with no explicit bus holds the bus of the nearest
\* enclosing provider (the inner one when there are two), and after its
\* effects are committed its registration is on that bus; a provider supplies
\* its eventBus prop when given, else a bus created for its config when
\* given, else the global bus; a render of a provider that leaves both props
\* as they were leaves the bus it supplies as it was.
C13_Supplied(pr) ==
    pr.present =>
        IF pr.eventBus # NoBus THEN pr.value = pr.eventBus
        ELSE IF pr.config # NoConfig
             THEN pr.value \in {createEventBus(i) : i \in 1..nextBus}
             ELSE pr.value = globalEventBus

C13_State ==
    /\ C13_Supplied(provider)
    /\ C13_Supplied(outer)
    /\ \A b \in Bindings :
          (phase[b] = "mounted" /\ kind[b] \in ContextReaders
              /\ props[b].explicit = NoBus /\ (provider.present \/ outer.present))
          => /\ eventBus[b] = IF provider.present THEN provider.value
                              ELSE outer.value
             /\ pending[b] = {} => \A l \in unsub[b] : l.bus = eventBus[b]

C13_SameProps(pr, next) ==
    (pr.present /\ next.eventBus = pr.eventBus /\ next.config = pr.config)
    => next.value = pr.value

C13_NearestProviderSupplies ==
    /\ []C13_State
    /\ [][C13_SameProps(provider, provider') /\ C13_SameProps(outer, outer')]_vars

\* a useEvent binding is registered on the bus the inner provider created for
\* its config while the outer provider supplies its own eventBus prop
C13_Witness ==
    \E b \in Bindings :
        /\ provider.present /\ outer.present
        /\ provider.config # NoConfig /\ provider.eventBus = NoBus
        /\ outer.eventBus # NoBus
        /\ kind[b] = "useEvent" /\ phase[b] = "mounted" /\ pending[b] = {}
        /\ props[b].explicit = NoBus
        /\ \E l \in unsub[b] : l.bus = provider.value /\ l.bus # outer.value

\* the literal key the facade for prefix ns is to use for event e
C14_Key(ns, e) ==
    CASE ns = "user" /\ e = "k1" -> "user:k1"
      [] ns = "user" /\ e = "k2" -> "user:k2"
      [] ns = "app" /\ e = "k1" -> "app:k1"
      [] ns = "app" /\ e = "k2" -> "app:k2"

\* an emission of the literal key on bus invokes every handler registered for
\* that key on that bus once, with the payload, and no other handler; the
\* persistent registrations stay
C14_DeliveryOf(bus, key, payload) ==
    /\ \A i \in DOMAIN listeners :
          (listeners[i].bus = bus /\ listeners[i].key = key)
          => Cardinality({j \in DOMAIN delivered' :
                             /\ delivered'[j].fn = listeners[i].fn
                             /\ delivered'[j].h = listeners[i].fn.h
                             /\ delivered'[j].args = <<payload>>}) = 1
    /\ \A j \in DOMAIN delivered' :
          \E i \in DOMAIN listeners :
              /\ listeners[i].bus = bus /\ listeners[i].key = key
              /\ listeners[i].fn = delivered'[j].fn
    /\ \A i \in DOMAIN listeners :
          listeners[i].mode = "on" =>
              \E k \in DOMAIN listeners' : listeners'[k] = listeners[i]

C14_Removed(bus, key, h, once) ==
    SelectSeq(listeners, LAMBDA l :
        ~(/\ l.bus = bus /\ l.key = key /\ l.fn.h = h /\ l.fn.b = "app"
          /\ (l.mode = "on" \/ once)))

\* C14: the facade for prefix p on bus B turns on, once, off and emit for
\* event e into the same call on B with the literal key "p:e": on and once
\* add a registration of the handler for "p:e" on B, off removes the
\* persistent registration of the handler for "p:e" and no other, emit(e) and
\* B.emit("p:e") invoke exactly the handlers registered for "p:e", and
\* B.emit(e) invokes none of them; what a facade call does depends on its
\* arguments and on the registrations of B only.
C14_Step ==
    /\ \A ns \in Namespaces : \A bus \in FacadeBuses : \A e \in Keys :
       \A h \in Handlers :
          /\ FacadeOn(ns, bus, e, h) =>
                listeners' = Append(listeners,
                    [bus |-> bus, key |-> C14_Key(ns, e),
                     fn |-> [b |-> "app", gen |-> 0, h |-> h], mode |-> "on"])
          /\ FacadeOnce(ns, bus, e, h) =>
                listeners' = Append(listeners,
                    [bus |-> bus, key |-> C14_Key(ns, e),
                     fn |-> [b |-> "app", gen |-> 0, h |-> h], mode |-> "once"])
          /\ FacadeOff(ns, bus, e, h) =>
                \E once \in BOOLEAN :
                    listeners' = C14_Removed(bus, C14_Key(ns, e), h, once)
    /\ \A ns \in Namespaces : \A bus \in FacadeBuses : \A e \in Keys :
       \A payload \in Payloads :
          FacadeEmit(ns, bus, e, payload) =>
             C14_DeliveryOf(bus, C14_Key(ns, e), payload)
    /\ \A bus \in UtilBuses : \A payload \in Payloads :
       \A key \in Keys \cup {C14_Key(ns, e) : ns \in Namespaces, e \in Keys} :
          Emit(bus, key, payload) => C14_DeliveryOf(bus, key, payload)

C14_NamespaceUsesLiteralKey == [][C14_Step]_vars

\* user.emit("k1") has invoked the handler registered for "user:k1" and not
\* the one registered for "app:k1" on the same bus
C14_Witness ==
    /\ emitted.via = "user" /\ emitted.key = "k1"
    /\ Len(delivered) = 1
    /\ delivered[1].key = "user:k1" /\ delivered[1].bus = emitted.bus
    /\ \E i \in DOMAIN listeners :
          listeners[i].key = "app:k1" /\ listeners[i].bus = emitted.bus

\* the registrations for key on bus, in registration order: what an emission
\* on a bus nobody wrapped invokes
C15_Unwrapped(bus, key) ==
    SelectSeq(listeners, LAMBDA l : l.bus = bus /\ l.key = key)

\* C15: withEventLogger(bus, false) returns bus and leaves its emit, its
\* registrations and the log as they were; withEventLogger(bus, true) returns
\* bus itself, adds one logging wrapper to its emit and touches no other bus;
\* an emission of key K with payload P on a bus logs one entry (K, P) per
\* wrapper, each before the first handler is invoked, and then invokes the
\* handlers registered for K in registration order with P, as the bus would
\* without wrappers.
C15_LoggerStep ==
    \A bus \in UtilBuses :
        /\ WithEventLogger(bus, FALSE) =>
              /\ returned' = bus
              /\ wraps' = wraps
        /\ WithEventLogger(bus, TRUE) =>
              /\ returned' = bus
              /\ wraps'[bus] = wraps[bus] + 1
              /\ \A other \in AllBuses \ {bus} : wraps'[other] = wraps[other]
        /\ returned' = bus =>
              /\ listeners' = listeners
              /\ logged' = <<>> /\ delivered' = <<>>

C15_EmitStep ==
    \A bus \in UtilBuses : \A key \in Keys : \A payload \in Payloads :
        Emit(bus, key, payload) =>
           LET hit == C15_Unwrapped(bus, key)
           IN  /\ Len(logged') = wraps[bus]
               /\ \A i \in DOMAIN logged' :
                     logged'[i] = [key |-> key, payload |-> payload, before |-> 0]
               /\ Len(delivered') = Len(hit)
               /\ \A i \in DOMAIN delivered' :
                     /\ delivered'[i].fn = hit[i].fn
                     /\ delivered'[i].h = hit[i].fn.h
                     /\ delivered'[i].args = <<payload>>
               /\ wraps' = wraps

C15_LoggerWrapsEmitInPlace == [][C15_LoggerStep /\ C15_EmitStep]_vars

\* an emission on a bus wrapped once has logged one entry and invoked two
\* handlers, while the other bus is not wrapped
C15_Witness ==
    /\ Len(logged) = 1
    /\ Len(delivered) = 2
    /\ wraps[delivered[1].bus] = 1
    /\ logged[1].key = delivered[1].key
    /\ \E other \in UtilBuses : wraps[other] = 0

\* C16: across the renders of a mounted useEmit binding that leave the
\* resolved bus as it was the function it returns is the same one; the
\* function of the latest render emits on the bus of the latest render; a
\* call emit(K, P) is one emission of K with P on that bus, made in the step
\* of the call: every handler registered for K there is invoked once with P
\* and nothing is invoked with another key, payload or bus.
C16_State ==
    /\ \A b \in Bindings :
          (kind[b] = "useEmit" /\ phase[b] = "mounted")
          => emitFn[b].gen >= 1 /\ emitFn[b].bus = eventBus[b]
    /\ emitted.via \in Bindings =>
          /\ emitted.bus = eventBus[emitted.via]
          /\ \A i \in DOMAIN delivered :
                /\ delivered[i].bus = emitted.bus
                /\ delivered[i].key = emitted.key
                /\ delivered[i].args = <<emitted.payload>>

C16_Identity ==
    \A b \in Bindings :
        (kind[b] = "useEmit" /\ phase[b] = "mounted" /\ phase'[b] = "mounted"
            /\ eventBus'[b] = eventBus[b])
        => emitFn'[b] = emitFn[b]

C16_Forward ==
    \A b \in Bindings : \A key \in Keys : \A payload \in Payloads :
        EmitVia(b, key, payload) =>
           /\ emitted' = [bus |-> eventBus[b], key |-> key, payload |-> payload,
                          via |-> b]
           /\ \A i \in DOMAIN listeners :
                 Cardinality({j \in DOMAIN delivered' :
                                 delivered'[j].fn = listeners[i].fn})
                    = IF listeners[i].bus = eventBus[b] /\ listeners[i].key = key
                      THEN 1 ELSE 0
           /\ Len(delivered') =
                 Cardinality({i \in DOMAIN listeners :
                                 listeners[i].bus = eventBus[b] /\ listeners[i].key = key})
           /\ listeners' = listeners

C16_EmitStableAndForwarding ==
    /\ []C16_State
    /\ [][C16_Identity /\ C16_Forward]_vars

\* the second function useEmit created for c1 has reached the listener c2
C16_Witness ==
    /\ emitted.via = "c1"
    /\ emitFn["c1"].gen = 2
    /\ Len(delivered) = 1
    /\ delivered[1].b = "c2"
    /\ delivered[1].args = <<"p2">>

\* C17: while the component made by withEvents is mounted and its effects are
\* committed, each triple holds exactly one persistent registration, for its
\* own event on its own resolved bus; an emission of a key on a bus invokes,
\* once, the handler of each triple with that event on that bus and no other
\* triple's handler, and removes no registration; after the unmount no
\* registration of any triple is left.
C17_State ==
    \A b \in Bindings :
        /\ (phase[b] = "mounted" /\ pending[b] = {}) =>
              /\ Cardinality(Mine(b)) = 1
              /\ \A i \in Mine(b) :
                    /\ listeners[i].key = props[b].event
                    /\ listeners[i].bus = eventBus[b]
                    /\ listeners[i].mode = "on"
                    /\ Target(listeners[i].fn) = props[b].handler
        /\ phase[b] = "gone" => (Mine(b) = {} /\ unsub[b] = {})

C17_EmitStep ==
    \A bus \in KnownBuses : \A key \in Keys : \A payload \in Payloads :
        Emit(bus, key, payload) =>
           /\ listeners' = listeners
           /\ \A b \in Bindings :
                 (phase[b] = "mounted" /\ pending[b] = {}) =>
                    LET got == {i \in DOMAIN delivered' : delivered'[i].b = b}
                    IN  IF eventBus[b] = bus /\ props[b].event = key
                        THEN /\ Cardinality(got) = 1
                             /\ \A i \in got :
                                   /\ delivered'[i].h = props[b].handler
                                   /\ delivered'[i].args = <<payload>>
                        ELSE got = {}

C17_OneSubscriptionPerTriple ==
    /\ []C17_State
    /\ [][C17_EmitStep]_vars

\* the two triples share a bus and differ in event and handler; the latest
\* emission invoked the handler of the first and not that of the second
C17_Witness ==
    /\ phase["c1"] = "mounted" /\ phase["c2"] = "mounted"
    /\ eventBus["c1"] = eventBus["c2"]
    /\ props["c1"].event # props["c2"].event
    /\ props["c1"].handler # props["c2"].handler
    /\ Len(delivered) = 1
    /\ delivered[1].b = "c1" /\ delivered[1].h = props["c1"].handler
    /\ delivered[1].bus = eventBus["c2"]

\* the bus calls the latest step made for binding b
C19_Calls(b) == SelectSeq(busCalls, LAMBDA c : c.b = b)

\* the same bus, or, with no provider and no bus in the triple, the bus each
\* of the two call sites created for itself
C19_SameBus(x, y) ==
    \/ x = y
    \/ /\ ~provider.present
       /\ props["c1"].explicit = NoBus /\ props["c2"].explicit = NoBus
       /\ {x, y} \subseteq {createEventBus(i) : i \in 1..nextBus}

\* C19: a withEvents component with the single triple (K, h, B) and an
\* EventSubscription node with props (K, h, B), mounted, rendered again and
\* unmounted together, make the same bus calls in every step: the same
\* operations in the same order, for the same key, on the same bus; they
\* hold corresponding registrations and have the same effects pending.
C19_ParityOfForms ==
    LET a == C19_Calls("c1")
        b == C19_Calls("c2")
    IN  /\ Len(a) = Len(b)
        /\ \A i \in DOMAIN a :
              /\ a[i].op = b[i].op
              /\ a[i].l.key = b[i].l.key
              /\ a[i].l.mode = b[i].l.mode
              /\ a[i].l.fn.gen = b[i].l.fn.gen
              /\ C19_SameBus(a[i].l.bus, b[i].l.bus)
        /\ phase["c1"] = phase["c2"]
        /\ pending["c1"] = pending["c2"]
        /\ Cardinality(Mine("c1")) = Cardinality(Mine("c2"))
        /\ C19_SameBus(eventBus["c1"], eventBus["c2"])
        /\ handlerRef["c1"] = handlerRef["c2"]

\* the latest step unsubscribed both forms from one bus and subscribed both
\* to another
C19_Witness ==
    /\ Len(C19_Calls("c1")) = 2
    /\ Len(C19_Calls("c2")) = 2
    /\ C19_Calls("c1")[1].op = "unsubscribe"
    /\ C19_Calls("c2")[2].op = "subscribe"
    /\ C19_Calls("c2")[1].l.bus # C19_Calls("c2")[2].l.bus

\* C18: every unsubscribe capability a useEvent or useEventAll binding obtained
\* has been invoked exactly once, except the one it currently holds, which is
\* invoked at unmount (never twice, never left uninvoked after unmount); a
\* step that invokes the unsubscribe of a one-shot registration that already
\* fired raises nothing and leaves every registration on the bus in place.
C18_Counts ==
    \A b \in Bindings :
        kind[b] \in {"useEvent", "useEventAll"} =>
            \A i \in DOMAIN capCalls[b] :
                capCalls[b][i].n =
                    IF i < Len(capCalls[b]) \/ phase[b] = "gone" THEN 1 ELSE 0

C18_FiredOneShot(c) == c.op = "unsubscribe" /\ c.l.mode = "once" /\ ~Live(c.l)

C18_OneShotStep ==
    \A i \in DOMAIN busCalls' :
        C18_FiredOneShot(busCalls'[i]) =>
            /\ phase'[busCalls'[i].b] # "threw"
            /\ Len(listeners') >= Len(listeners)
            /\ SubSeq(listeners', 1, Len(listeners)) = listeners

C18_CapabilityInvokedOnce ==
    /\ []C18_Counts
    /\ [][C18_OneShotStep]_vars

\* a catch-all binding unmounted after a resubscription, both capabilities
\* invoked once
C18_Witness ==
    \E b \in Bindings :
        /\ kind[b] = "useEventAll"
        /\ phase[b] = "gone"
        /\ Len(capCalls[b]) = 2
        /\ \A i \in DOMAIN capCalls[b] : capCalls[b][i].n = 1

\* a one-shot binding unmounted after its only registration fired
C18_OneShotWitness ==
    \E b \in Bindings :
        /\ kind[b] = "useEventOnce"
        /\ phase[b] = "gone"
        /\ TotalCalls(b) = 1
        /\ capCalls[b] # <<>>
        /\ \A i \in DOMAIN capCalls[b] : capCalls[b][i].n = 1
        /\ \E i \in DOMAIN busCalls : busCalls[i].op = "unsubscribe"

\* C20: the bus a mounted useEventBus binding holds is one createEventBus made,
\* never the global bus nor the bus a provider supplies; a step across which
\* the binding stays mounted with the same config keeps the held instance, and
\* a render with another config yields an instance no one held before.
C20_Holders == {b \in Bindings : kind[b] = "useEventBus" /\ phase[b] = "mounted"}

C20_State ==
    \A b \in C20_Holders :
        /\ eventBus[b] \in {createEventBus(i) : i \in 1..nextBus}
        /\ eventBus[b] # globalEventBus
        /\ eventBus[b] \notin ProviderBuses \cup ExplicitBuses \cup OuterBuses
        /\ provider.present => eventBus[b] # provider.value
        /\ outer.present => eventBus[b] # outer.value

C20_Step ==
    \A b \in C20_Holders :
        phase'[b] = "mounted" =>
            IF props'[b].config = props[b].config
            THEN eventBus'[b] = eventBus[b]
            ELSE /\ eventBus'[b] \notin KnownBuses
                 /\ eventBus'[b] # eventBus[b]

C20_OwnBusMemoizedOnConfig ==
    /\ []C20_State
    /\ [][C20_Step]_vars

\* a second instance held after a render with another config
C20_Witness ==
    \E b \in C20_Holders :
        /\ moved[b]
        /\ eventBus[b] = createEventBus(nextBus)
        /\ nextBus >= 2

\* C21: a step in which a binding is neither mounted, rendered, flushed nor
\* unmounted leaves that binding's registrations as they were, whatever the
\* other binding on the same bus and key does; a registration application
\* code made is never removed; every unsubscribe call of a binding is for a
\* registration that binding made; no bus ceases to exist; and an emission of
\* K on B invokes every committed useEvent binding on (K, B) exactly once.
C21_Of(seq, who) == SelectSeq(seq, LAMBDA l : l.fn.b = who)

C21_Idle(b) ==
    /\ phase'[b] = phase[b]
    /\ props'[b] = props[b]
    /\ pending[b] = {}
    /\ pending'[b] = {}

C21_Frame ==
    /\ \A b \in Bindings :
          C21_Idle(b) => C21_Of(listeners', b) = C21_Of(listeners, b)
    /\ \A i \in DOMAIN listeners :
          listeners[i].fn.b = "app" =>
              \E j \in DOMAIN listeners' : listeners'[j] = listeners[i]
    /\ \A i \in DOMAIN busCalls' :
          /\ busCalls'[i].op \in {"subscribe", "unsubscribe"}
          /\ busCalls'[i].l.fn.b = busCalls'[i].b
    /\ KnownBuses \subseteq KnownBuses'

C21_EmitStep ==
    \A b \in Bindings :
        (kind[b] = "useEvent" /\ phase[b] = "mounted" /\ pending[b] = {})
        => \A payload \in Payloads :
              Emit(eventBus[b], props[b].event, payload) =>
                  /\ Cardinality({i \in DOMAIN delivered' :
                                     delivered'[i].b = b}) = 1
                  /\ calls'[b][props[b].handler] = calls[b][props[b].handler] + 1

C21_SharedBusIndependence ==
    /\ [][C21_Frame]_vars
    /\ [][C21_EmitStep]_vars

\* both bindings and application code were invoked by one emission on the
\* shared pair after one of the bindings had left the pair and come back
C21_Witness ==
    /\ \A b \in Bindings : phase[b] = "mounted" /\ pending[b] = {}
    /\ \E b \in Bindings : moved[b]
    /\ eventBus["c1"] = eventBus["c2"]
    /\ props["c1"].event = props["c2"].event
    /\ Len(delivered) = 3
    /\ \A b \in Bindings \cup {"app"} :
          Cardinality({i \in DOMAIN delivered : delivered[i].b = b}) = 1

\* C22: with no provider, a mounted useEmit binding and a mounted useEvent
\* binding that both pass no explicit bus hold different buses, and the bus
\* the emit function closes over carries no registration of the listener; an
\* emission through the emit function that invokes the listener's handler was
\* made on the emitter's explicit bus or on the bus the provider supplies.
C22_Emitters == {b \in Bindings : kind[b] = "useEmit" /\ phase[b] = "mounted"}
C22_Listeners == {b \in Bindings : kind[b] = "useEvent" /\ phase[b] = "mounted"}

C22_Unscoped(b) == props[b].explicit = NoBus /\ ~provider.present /\ ~outer.present

C22_Apart ==
    \A e \in C22_Emitters : \A l \in C22_Listeners :
        (C22_Unscoped(e) /\ C22_Unscoped(l)) =>
            /\ eventBus[e] # eventBus[l]
            /\ \A i \in Mine(l) : listeners[i].bus # emitFn[e].bus
            /\ emitted.via = e => \A i \in DOMAIN delivered : delivered[i].b # l

C22_Common ==
    \A l \in Bindings :
        (/\ kind[l] = "useEvent"
         /\ emitted.via \in Bindings
         /\ \E i \in DOMAIN delivered : delivered[i].b = l)
        => /\ \A i \in Mine(l) : listeners[i].bus = emitted.bus
           /\ IF props[emitted.via].explicit # NoBus
              THEN emitted.bus = props[emitted.via].explicit
              ELSE provider.present /\ emitted.bus = provider.value

C23_Key == IF emitted.via \in Namespaces
           THEN NamespacedKey(emitted.via, emitted.key)
           ELSE emitted.key

C23_Reached == {i \in DOMAIN listeners :
                   listeners[i].bus = emitted.bus /\ listeners[i].key = C23_Key}

C23_LoggingReachesExistingEmitters ==
    emitted # NoEmit =>
        /\ Len(logged) = wraps[emitted.bus]
        /\ \A i \in DOMAIN logged :
              logged[i] = [key |-> C23_Key, payload |-> emitted.payload, before |-> 0]
        /\ Len(delivered) = Cardinality(C23_Reached)
        /\ \A i \in C23_Reached :
              Cardinality({j \in DOMAIN delivered :
                              /\ delivered[j].fn = listeners[i].fn
                              /\ delivered[j].key = listeners[i].key}) = 1

\* the function useEmit returned before the bus was wrapped has emitted on
\* the bus wrapped twice since: two entries, the handler invoked once
C23_Witness ==
    /\ emitted.via \in Bindings
    /\ emitFn[emitted.via].seen = 0
    /\ wraps[emitted.bus] = MaxWraps
    /\ Len(logged) = MaxWraps
    /\ Len(delivered) = 1

\* a facade created before the bus was wrapped has emitted on the bus wrapped
\* twice since
C23_FacadeWitness ==
    /\ emitted.via \in Namespaces
    /\ \E f \in facades : f.ns = emitted.via /\ f.bus = emitted.bus /\ f.seen = 0
    /\ wraps[emitted.bus] = MaxWraps
    /\ Len(logged) = MaxWraps
    /\ Len(delivered) = 1

====
